---- MODULE Spec2Model ----
(***************************************************************************)
(* Stage pipeline engine of the recruitment module: recruitments, their    *)
(* stages, candidate applications and the handlers that move, reorder,     *)
(* archive and convert applications.  The database tables are sequences    *)
(* indexed by primary key; every action is one request handler, run to     *)
(* completion against the autocommit database.                             *)
(***************************************************************************)
EXTENDS Integers, Sequences, FiniteSets, TLC

VARIABLES recruitments, stages, apps, employees, last, notified, requests,
          CACHE

vars == <<recruitments, stages, apps, employees, last, notified, requests, CACHE>>

(* ------------------------------ bounds --------------------------------- *)
MaxRecruitments == 2
MaxApps == 1
MaxOrderLen == 2
MaxReorderApps == 2
MaxStageRecruitments == 1
MaxSequenceDataLen == 1

PageSize == 10

(* ------------------------------ inputs --------------------------------- *)
None == 0

Emails == {1}

\* job_position_id posted with an application: none, or position 1
JobInputs == {None, 1}

\* request.user: employee 1 is the recruitment manager in the form below,
\* employee 2 the default stage manager, employee 3 manages nothing.
Actors ==
    {[employee |-> 1, is_superuser |-> FALSE],
     [employee |-> 2, is_superuser |-> FALSE],
     [employee |-> 3, is_superuser |-> FALSE],
     [employee |-> 3, is_superuser |-> TRUE]}

\* field values posted with RecruitmentCreationForm
RecruitmentForms ==
    {[vacancy |-> 1, open_positions |-> {1}, is_event_based |-> FALSE,
      recruitment_managers |-> {1}, default_stage_manager |-> {2}]}

\* stage types a request may name as its target; the handlers only ever
\* compare a type with "selected" and "cancelled"
TargetTypes == {"sourced", "selected", "cancelled"}

SequenceInputs == {0, 1}

\* label and stage type posted with StageCreationForm for a new stage
StageLabelInputs == {"Offer", "Screening"}

StageTypeInputs == {"test"}

\* sequence numbers posted by the stage board
StageSequenceInputs == {1, 49}

\* what a call of notify.send() does: it delivers, or it raises
NotifyOutcomes == {"sent", "raised"}

\* field values posted with RecruitmentCreationForm on an existing
\* recruitment: the open positions are replaced, the rest is posted as it was
RecruitmentUpdateForms ==
    {[vacancy |-> 1, open_positions |-> {2}, is_event_based |-> FALSE,
      recruitment_managers |-> {1}, default_stage_manager |-> {2}]}

(* --------------------------- stage graph -------------------------------- *)
Stage(rec, label, type, seq, managers) ==
    [recruitment_id |-> rec, stage |-> label, stage_type |-> type,
     sequence |-> seq, stage_managers |-> managers]

\* post_save receiver of Recruitment
InitialStages ==
    <<[stage |-> "Sourced", stage_type |-> "sourced", sequence |-> 1],
      [stage |-> "Shortlisted", stage_type |-> "shortlisted", sequence |-> 2],
      [stage |-> "Test", stage_type |-> "test", sequence |-> 3],
      [stage |-> "Interview", stage_type |-> "interview", sequence |-> 4],
      [stage |-> "Selected", stage_type |-> "selected", sequence |-> 5],
      [stage |-> "Rejected", stage_type |-> "rejected", sequence |-> 6],
      [stage |-> "On Hold", stage_type |-> "on-hold", sequence |-> 7],
      [stage |-> "Cancelled", stage_type |-> "cancelled", sequence |-> 8]>>

create_initial_stage(S, rec) ==
    S \o [i \in 1..Len(InitialStages) |->
            Stage(rec, InitialStages[i].stage, InitialStages[i].stage_type,
                  InitialStages[i].sequence, {})]

default_stages ==
    <<[stage |-> "Sourced", stage_type |-> "sourced", sequence |-> 1],
      [stage |-> "Shortlisted", stage_type |-> "shortlisted", sequence |-> 2],
      [stage |-> "L1 Interview", stage_type |-> "l1_interview", sequence |-> 3],
      [stage |-> "L2 Interview", stage_type |-> "l2_interview", sequence |-> 4],
      [stage |-> "L3 Interview", stage_type |-> "l3_interview", sequence |-> 5],
      [stage |-> "Test", stage_type |-> "test", sequence |-> 6],
      [stage |-> "Selected", stage_type |-> "selected", sequence |-> 7],
      [stage |-> "Rejected", stage_type |-> "rejected", sequence |-> 8],
      [stage |-> "On Hold", stage_type |-> "on-hold", sequence |-> 9]>>

StageIds(S) == 1..Len(S)

StagesOf(S, rec) == {i \in StageIds(S) : S[i].recruitment_id = rec}

\* QuerySet.first() under Meta.ordering = ["sequence"]; rows of equal
\* sequence come back in primary-key order
First(S, ids) ==
    CHOOSE i \in ids : \A j \in ids :
        \/ S[i].sequence < S[j].sequence
        \/ (S[i].sequence = S[j].sequence /\ i <= j)

\* a get_or_create() whose lookup finds nothing
get_by_label_none(S, rec, label) == {}

\* the lookup of get_or_create(recruitment_id=self, stage=label)
get_by_label(S, rec, label) == {i \in StagesOf(S, rec) : S[i].stage = label}

RECURSIVE create_default_stages_from(_, _, _, _)
create_default_stages_from(S, rec, managers, k) ==
    IF k > Len(default_stages) THEN S
    ELSE LET d == default_stages[k]
             found == get_by_label(S, rec, d.stage)
             \* get_or_create(recruitment_id, stage, defaults)
             S1 == IF found = {}
                   THEN Append(S, Stage(rec, d.stage, d.stage_type, d.sequence, {}))
                   ELSE S
             id == IF found = {} THEN Len(S) + 1 ELSE CHOOSE i \in found : TRUE
             S2 == IF managers # {}
                   THEN [S1 EXCEPT ![id].stage_managers = managers]
                   ELSE S1
         IN create_default_stages_from(S2, rec, managers, k + 1)

create_default_stages(S, rec, managers) ==
    create_default_stages_from(S, rec, managers, 1)

(* ---------------------- application record store ------------------------ *)
AppIds(A) == 1..Len(A)

put(A, id, a) == IF id = Len(A) + 1 THEN Append(A, a) ELSE [A EXCEPT ![id] = a]

\* variant of CancelledStages that drops the recruitment filter of the query
CancelledStages_any_recruitment(S, rec) ==
    {i \in StageIds(S) : S[i].stage_type = "cancelled"}

CancelledStages(S, rec) ==
    {i \in StagesOf(S, rec) : S[i].stage_type = "cancelled"}

\* CandidateApplication.save(), statement by statement.  The result of a
\* call is a record: error names the exception the call raises ("" when the
\* row is written); stages and apps are the tables as the call leaves them.
Saved(error, S, A) == [error |-> error, stages |-> S, apps |-> A]

\* self.hired = self.stage_id.stage_type == "selected", when a stage is set
save_hired(self, S) ==
    IF self.stage_id # None
    THEN [self EXCEPT !.hired = (S[self.stage_id].stage_type = "selected")]
    ELSE self

\* the job position defaults to the recruitment's own
save_job_position(self) ==
    IF /\ ~recruitments[self.recruitment_id].is_event_based
       /\ self.job_position_id = None
    THEN [self EXCEPT !.job_position_id =
                          recruitments[self.recruitment_id].job_position_id]
    ELSE self

\* self.canceled = True when the stage is of type "cancelled"
save_canceled(self, S) ==
    IF self.stage_id # None /\ S[self.stage_id].stage_type = "cancelled"
    THEN [self EXCEPT !.canceled = TRUE]
    ELSE self

\* Stage.objects.create("Cancelled Candidates") meets unique_together
\* (recruitment_id, stage)
cancelled_stage_clash(self, S) ==
    /\ self.canceled
    /\ CancelledStages(S, self.recruitment_id) = {}
    /\ \E i \in StagesOf(S, self.recruitment_id) : S[i].stage = "Cancelled Candidates"

\* the stage table after the lookup, or creation, of the cancelled stage
cancelled_stage_created(self, S) ==
    IF self.canceled /\ CancelledStages(S, self.recruitment_id) = {}
    THEN Append(S, Stage(self.recruitment_id, "Cancelled Candidates",
                         "cancelled", 50, {}))
    ELSE S

\* self.stage_id = cancelled_stage, for a row whose canceled flag is set
save_cancelled_stage(self, S) ==
    IF self.canceled
    THEN [self EXCEPT !.stage_id =
            IF CancelledStages(S, self.recruitment_id) = {}
            THEN Len(S) + 1
            ELSE First(S, CancelledStages(S, self.recruitment_id))]
    ELSE self

\* a save() without the employee uniqueness test
employee_taken_never(self, id, A) == FALSE

\* another row already holds the converted employee
employee_taken(self, id, A) ==
    /\ self.converted_employee_id # None
    /\ \E j \in AppIds(A) :
          j # id /\ A[j].converted_employee_id = self.converted_employee_id

\* a save() that writes a converted row with the flags it computed so far
save_converted_keep_flags(self) == self

\* a converted row is written with hired and canceled cleared
save_converted(self) ==
    IF self.converted
    THEN [self EXCEPT !.hired = FALSE, !.canceled = FALSE]
    ELSE self

\* from the employee uniqueness test to super().save()
save_unique(self, id, S, A) ==
    IF employee_taken(self, id, A)
    THEN Saved("ValidationError", S, A)
    ELSE Saved("", S, put(A, id, save_converted(self)))

\* from the canceled test on
save_cancel(self, id, S, A) ==
    IF cancelled_stage_clash(self, S)
    THEN Saved("IntegrityError", S, A)
    ELSE save_unique(save_cancelled_stage(self, S), id,
                     cancelled_stage_created(self, S), A)

\* a save() without the job position validation
save_valid_unchecked(self, id, S, A) ==
    save_cancel(save_canceled(self, S), id, S, A)

\* from the job position validation on
save_valid(self, id, S, A) ==
    IF self.job_position_id \notin recruitments[self.recruitment_id].open_positions
    THEN Saved("ValidationError", S, A)
    ELSE save_cancel(save_canceled(self, S), id, S, A)

save(self, id, S, A) ==
    save_valid(save_job_position(save_hired(self, S)), id, S, A)

(* --------------------------- authorization ------------------------------ *)
\* is_stagemanager(request)[1]: employee.stage_set.all()
is_stagemanager(actor) ==
    {i \in StageIds(stages) : actor.employee \in stages[i].stage_managers}

\* is_recruitmentmanager(request, rec_id)[0].  The move handler imports this
\* name and is_stagemanager from recruitment.decorators; the functions of
\* these names in views.py are the ones modelled, called with the request.
is_recruitmentmanager(actor, rec_id) ==
    \/ actor.employee \in recruitments[rec_id].recruitment_managers
    \/ actor.is_superuser

(* ----------------------------- lookups --------------------------------- *)
\* Stage.objects.filter(id=stage_id).first(): None when nothing matches
lookup_stage(stage_id) ==
    IF stage_id \in StageIds(stages) THEN stage_id ELSE None

(* ------------------------------ vacancy --------------------------------- *)
\* Recruitment.is_vacancy_filled(): returns None when the recruitment has no
\* selected-type stage; otherwise it reads selected_stage.candidate_set, a
\* relation Stage does not have (Candidate holds no foreign key to Stage),
\* and the read raises AttributeError before any count is compared
is_vacancy_filled(rec, S) ==
    IF {i \in StagesOf(S, rec) : S[i].stage_type = "selected"} = {}
    THEN "None"
    ELSE "AttributeError"

(* ------------------------- requests in flight -------------------------- *)
\* two requests can be served at the same time, each by its own worker
Workers == {1, 2}

\* a worker that serves no request.  obj is the row the handler holds in
\* memory, cancelled_stage what the cancelled stage query of save() returned,
\* base the tables as they were when the first of the requests began
IdleRequest ==
    [pc |-> "idle", op |-> "none", app_id |-> None, stage_id |-> None,
     sequence |-> 0, obj |-> <<>>, cancelled_stage |-> None, error |-> "",
     base |-> <<>>]

(* ------------------------------ results -------------------------------- *)
Response(op, type, message, messages) ==
    [op |-> op, type |-> type, message |-> message, messages |-> messages]

Init ==
    /\ recruitments = <<>>
    /\ stages = <<>>
    /\ apps = <<>>
    /\ employees = <<>>
    /\ last = Response("init", "none", FALSE, <<>>)
    /\ notified = "none"
    /\ requests = [w \in Workers |-> IdleRequest]
    /\ CACHE = <<>>

(* ------------------------------ handlers -------------------------------- *)
\* recruitment(): form.save() fires create_initial_stage, then the view
\* sets the many-to-many fields and calls create_default_stages()
recruitment(form) ==
    /\ Len(recruitments) < MaxRecruitments
    /\ LET id == Len(recruitments) + 1
           obj == [vacancy |-> form.vacancy,
                   open_positions |-> form.open_positions,
                   is_event_based |-> form.is_event_based,
                   job_position_id |-> None,
                   recruitment_managers |-> form.recruitment_managers,
                   default_stage_manager |-> form.default_stage_manager]
       IN /\ recruitments' = Append(recruitments, obj)
          /\ stages' = create_default_stages(create_initial_stage(stages, id), id,
                                             form.default_stage_manager)
    /\ notified' = "none"
    /\ UNCHANGED <<requests, CACHE>>
    /\ last' = Response("recruitment", "success", FALSE, <<>>)
    /\ UNCHANGED <<apps, employees>>

\* recruitment_update(): form.save() writes the posted fields and the
\* many-to-many sets; the call of update_stage_assignments(), a method
\* Recruitment does not define, then raises AttributeError
recruitment_update(rec_id, form) ==
    /\ rec_id \in 1..Len(recruitments)
    /\ recruitments' =
          [recruitments EXCEPT ![rec_id] =
              [vacancy |-> form.vacancy,
               open_positions |-> form.open_positions,
               is_event_based |-> form.is_event_based,
               job_position_id |-> recruitments[rec_id].job_position_id,
               recruitment_managers |-> form.recruitment_managers,
               default_stage_manager |-> form.default_stage_manager]]
    /\ notified' = "none"
    /\ UNCHANGED <<requests, CACHE>>
    /\ last' = Response("recruitment_update", "AttributeError", FALSE, <<>>)
    /\ UNCHANGED <<stages, apps, employees>>

\* stage_update(): StageCreationForm saves the posted stage type
stage_update(stage_id, stage_type) ==
    /\ stage_id \in StageIds(stages)
    /\ stages' = [stages EXCEPT ![stage_id].stage_type = stage_type]
    /\ notified' = "none"
    /\ UNCHANGED <<requests, CACHE>>
    /\ last' = Response("stage_update", "success", FALSE, <<>>)
    /\ UNCHANGED <<recruitments, apps, employees>>

\* greatest sequence among the stages of a recruitment:
\* .order_by("sequence").last().sequence
last_sequence(S, rec) ==
    CHOOSE n \in {S[i].sequence : i \in StagesOf(S, rec)} :
        \A i \in StagesOf(S, rec) : S[i].sequence <= n

\* stage(), the view: StageCreationForm creates the stage with the default
\* sequence 0,
\* then the view gives it the sequence after the last one of the recruitment
stage_view(rec_id, label, stage_type, managers) ==
    /\ rec_id \in 1..Len(recruitments)
    \* validate_unique: unique_together (recruitment_id, stage)
    /\ get_by_label(stages, rec_id, label) = {}
    /\ stages' = Append(stages,
                        Stage(rec_id, label, stage_type,
                              last_sequence(
                                  Append(stages,
                                         Stage(rec_id, label, stage_type, 0,
                                               managers)),
                                  rec_id) + 1,
                              managers))
    /\ notified' = "none"
    /\ UNCHANGED <<requests, CACHE>>
    /\ last' = Response("stage", "success", FALSE, <<>>)
    /\ UNCHANGED <<recruitments, apps, employees>>

\* the for loop of stage_sequence_update() over the posted pairs
RECURSIVE stage_sequence_loop(_, _, _)
stage_sequence_loop(sequence_data, k, S) ==
    IF k > Len(sequence_data)
    THEN [error |-> "", stages |-> S]
    ELSE IF sequence_data[k][1] \notin StageIds(S)
    THEN [error |-> "DoesNotExist", stages |-> S]
    ELSE stage_sequence_loop(sequence_data, k + 1,
             [S EXCEPT ![sequence_data[k][1]].sequence = sequence_data[k][2]])

\* stage_sequence_update()
stage_sequence_update(sequence_data) ==
    /\ stages' = stage_sequence_loop(sequence_data, 1, stages).stages
    /\ notified' = "none"
    /\ UNCHANGED <<requests, CACHE>>
    /\ last' = Response("stage_sequence_update",
                        IF stage_sequence_loop(sequence_data, 1, stages).error = ""
                        THEN "success"
                        ELSE stage_sequence_loop(sequence_data, 1, stages).error,
                        FALSE, <<>>)
    /\ UNCHANGED <<recruitments, apps, employees>>

\* Recruitment.create_default_stages() called on a recruitment that has
\* its stages
Recruitment_create_default_stages(rec_id) ==
    /\ rec_id \in 1..Len(recruitments)
    /\ stages' = create_default_stages(stages, rec_id,
                                       recruitments[rec_id].default_stage_manager)
    /\ notified' = "none"
    /\ UNCHANGED <<requests, CACHE>>
    /\ last' = Response("create_default_stages", "success", FALSE, <<>>)
    /\ UNCHANGED <<recruitments, apps, employees>>

\* variant of stage_update_fields that leaves the canceled flag as it was
stage_update_fields_keep_canceled(candidate_app, stage_id) ==
    [candidate_app EXCEPT
        !.stage_id = stage_id,
        !.hired = (stages[stage_id].stage_type = "selected"),
        !.start_onboard = FALSE]

\* the notify.send() of candidate_application_stage_update(): the statement
\* follows candidate_app.save() inside the permitted branch, so it runs only
\* when save() returned; contextlib.suppress keeps what it raises from the
\* response
notify_send_before_save(error, outcome) == outcome

notify_send(error, outcome) == IF error = "" THEN outcome ELSE "none"

\* the assignments candidate_application_stage_update() makes before save()
stage_update_fields(candidate_app, stage_id) ==
    [candidate_app EXCEPT
        !.stage_id = stage_id,
        !.hired = (stages[stage_id].stage_type = "selected"),
        !.canceled = (stages[stage_id].stage_type = "cancelled"),
        !.start_onboard = FALSE]

\* the permission test of candidate_application_stage_update()
stage_update_allowed(actor, stage_id) ==
    LET stage_obj == stages[stage_id]
        stage_manager_on_this_recruitment ==
            \E i \in is_stagemanager(actor) :
                stages[i].recruitment_id = stage_obj.recruitment_id
    IN \/ stage_manager_on_this_recruitment
       \/ actor.is_superuser
       \/ is_recruitmentmanager(actor, stage_obj.recruitment_id)

\* candidate_application_stage_update(): MoveStage, the drag-and-drop move
candidate_application_stage_update(actor, app_id, stage_id) ==
    IF app_id \notin AppIds(apps) \/ stage_id \notin StageIds(stages)
    THEN /\ last' = Response("MoveStage", "DoesNotExist", FALSE, <<>>)
         /\ notified' = "none"
         /\ UNCHANGED <<requests, CACHE>>
         /\ UNCHANGED <<recruitments, stages, apps, employees>>
    ELSE IF stage_update_allowed(actor, stage_id)
    THEN LET r == save(stage_update_fields(apps[app_id], stage_id),
                       app_id, stages, apps)
         IN /\ stages' = r.stages
            /\ apps' = r.apps
            /\ \E outcome \in NotifyOutcomes :
                  notified' = notify_send(r.error, outcome)
            /\ UNCHANGED <<requests, CACHE>>
            /\ last' = Response("MoveStage",
                                IF r.error = "" THEN "success" ELSE r.error,
                                FALSE, <<>>)
            /\ UNCHANGED <<recruitments, employees>>
    ELSE /\ last' = Response("MoveStage", "danger", FALSE, <<>>)
         /\ notified' = "none"
         /\ UNCHANGED <<requests, CACHE>>
         /\ UNCHANGED <<recruitments, stages, apps, employees>>

\* CandidateApplicationCreationForm.save() of a new instance
CandidateApplicationCreationForm_save(rec_id, stage_id, job, email) ==
    /\ rec_id \in 1..Len(recruitments)
    \* the form is posted with a stage of the chosen recruitment
    /\ stage_id \in StagesOf(stages, rec_id)
    \* validate_unique: unique_together (email, recruitment_id)
    /\ ~\E j \in AppIds(apps) : apps[j].email = email /\ apps[j].recruitment_id = rec_id
    /\ LET sel == stages[stage_id].stage_type = "selected"
           c == [recruitment_id |-> rec_id, stage_id |-> stage_id,
                 job_position_id |-> job, email |-> email, sequence |-> 0,
                 hired |-> sel, canceled |-> FALSE, converted |-> FALSE,
                 converted_employee_id |-> None, start_onboard |-> sel,
                 is_active |-> TRUE]
           r == save(c, Len(apps) + 1, stages, apps)
       IN /\ stages' = r.stages
          /\ apps' = r.apps
          /\ notified' = "none"
          /\ UNCHANGED <<requests, CACHE>>
          /\ last' = Response("Create", IF r.error = "" THEN "success" ELSE r.error,
                              FALSE, <<>>)
    /\ UNCHANGED <<recruitments, employees>>

\* the for loop shared by update_candidate_stage_and_sequence and
\* update_candidate_sequence; index is the 0-based enumerate() index
\* cache_data["stages"]: the stage query of the snapshot, run against the
\* table when a view filters it
snapshot_stages(cache_data) == StageIds(stages)

\* the stage a reorder view resolves from its stage_id parameter: through
\* the snapshot when the session has one, else from the table
cached_stage(stage_id, cache_data) ==
    IF cache_data = <<>>
    THEN lookup_stage(stage_id)
    ELSE IF stage_id \in snapshot_stages(cache_data) THEN stage_id ELSE None

RECURSIVE order_loop(_, _, _, _, _)
order_loop(order_list, index, stage, S, A) ==
    IF index >= Len(order_list)
    THEN [error |-> "", stages |-> S, apps |-> A]
    ELSE LET cand_app_id == order_list[index + 1]
         IN IF cand_app_id \notin AppIds(A)
            THEN order_loop(order_list, index + 1, stage, S, A)
            ELSE LET c == [A[cand_app_id] EXCEPT !.sequence = index,
                                                 !.stage_id = stage]
                     r == save(c, cand_app_id, S, A)
                 IN IF r.error = ""
                    THEN order_loop(order_list, index + 1, stage, r.stages, r.apps)
                    ELSE r

\* update_candidate_stage_and_sequence(): Reorder
update_candidate_stage_and_sequence(order_list, stage_id) ==
    LET stage == cached_stage(stage_id, CACHE)
        r == order_loop(order_list, 0, stage, stages, apps)
        check == r.error = "" /\ stage # None /\ stages[stage].stage_type = "selected"
        v == IF check THEN is_vacancy_filled(stages[stage].recruitment_id, r.stages)
             ELSE "None"
    IN /\ stages' = r.stages
       /\ apps' = r.apps
       /\ notified' = "none"
       /\ UNCHANGED <<requests, CACHE>>
       /\ last' = Response("Reorder",
                           IF r.error # "" THEN r.error
                           ELSE IF v = "AttributeError" THEN v ELSE "success",
                           v = "True", <<>>)
       /\ UNCHANGED <<recruitments, employees>>

\* update_candidate_sequence(): the same loop without the vacancy check
update_candidate_sequence(order_list, stage_id) ==
    LET stage == cached_stage(stage_id, CACHE)
        r == order_loop(order_list, 0, stage, stages, apps)
    IN /\ stages' = r.stages
       /\ apps' = r.apps
       /\ notified' = "none"
       /\ UNCHANGED <<requests, CACHE>>
       /\ last' = Response("ReorderSequence",
                           IF r.error = "" THEN "success" ELSE r.error, FALSE, <<>>)
       /\ UNCHANGED <<recruitments, employees>>

\* the bulk loop of change_candidate_stage(); the non-bulk POST branch is
\* the same body run for one id
RECURSIVE change_stage_loop(_, _, _, _, _, _, _)
change_stage_loop(canIds, k, stage_id, S, A, msgs, message) ==
    IF k > Len(canIds)
    THEN [error |-> "", stages |-> S, apps |-> A, messages |-> msgs,
          message |-> message]
    ELSE LET cand_id == canIds[k]
         IN IF cand_id \notin AppIds(A)
            THEN change_stage_loop(canIds, k + 1, stage_id, S, A,
                                   Append(msgs, "not found"), message)
            ELSE LET stage == IF /\ stage_id \in StageIds(S)
                                 /\ S[stage_id].recruitment_id = A[cand_id].recruitment_id
                              THEN stage_id ELSE None
                 IN IF stage = None
                    THEN change_stage_loop(canIds, k + 1, stage_id, S, A, msgs, message)
                    ELSE LET r == save([A[cand_id] EXCEPT !.stage_id = stage],
                                       cand_id, S, A)
                             v == IF r.error = "" /\ S[stage].stage_type = "selected"
                                  THEN is_vacancy_filled(S[stage].recruitment_id, r.stages)
                                  ELSE "None"
                         IN IF r.error # "" \/ v = "AttributeError"
                            THEN [error |-> IF r.error # "" THEN r.error ELSE v,
                                  stages |-> r.stages, apps |-> r.apps,
                                  messages |-> msgs, message |-> message]
                            ELSE change_stage_loop(canIds, k + 1, stage_id,
                                                   r.stages, r.apps,
                                                   Append(msgs, "updated"),
                                                   message \/ v = "True")

\* change_candidate_stage(): BulkMove
change_candidate_stage(canIds, stage_id) ==
    LET r == change_stage_loop(canIds, 1, stage_id, stages, apps, <<>>, FALSE)
    IN /\ stages' = r.stages
       /\ apps' = r.apps
       /\ notified' = "none"
       /\ UNCHANGED <<requests, CACHE>>
       /\ last' = Response("BulkMove", IF r.error = "" THEN "success" ELSE r.error,
                           r.message, r.messages)
       /\ UNCHANGED <<recruitments, employees>>

\* candidate_sequence_update(): SetSequence, sequence_data as (id, seq) pairs
RECURSIVE sequence_loop(_, _, _, _)
sequence_loop(sequence_data, k, S, A) ==
    IF k > Len(sequence_data)
    THEN [error |-> "", stages |-> S, apps |-> A]
    ELSE LET cand_app_id == sequence_data[k][1]
             seq == sequence_data[k][2]
         IN IF cand_app_id \notin AppIds(A)
            THEN sequence_loop(sequence_data, k + 1, S, A)
            ELSE LET r == save([A[cand_app_id] EXCEPT !.sequence = seq],
                               cand_app_id, S, A)
                 IN IF r.error = ""
                    THEN sequence_loop(sequence_data, k + 1, r.stages, r.apps)
                    ELSE r

candidate_sequence_update(sequence_data) ==
    LET r == sequence_loop(sequence_data, 1, stages, apps)
    IN /\ stages' = r.stages
       /\ apps' = r.apps
       /\ notified' = "none"
       /\ UNCHANGED <<requests, CACHE>>
       /\ last' = Response("SetSequence", IF r.error = "" THEN "info" ELSE r.error,
                           FALSE, <<>>)
       /\ UNCHANGED <<recruitments, employees>>

\* the assignments a handler makes to the row it loaded, for one listed
\* application: candidate_application_stage_update, the loop bodies of
\* update_candidate_stage_and_sequence, change_candidate_stage and
\* candidate_sequence_update
request_fields(req, obj) ==
    CASE req.op = "MoveStage" -> stage_update_fields(obj, req.stage_id)
      [] req.op = "Reorder" -> [obj EXCEPT !.sequence = req.sequence,
                                          !.stage_id = req.stage_id]
      [] req.op = "BulkMove" -> [obj EXCEPT !.stage_id = req.stage_id]
      [] req.op = "SetSequence" -> [obj EXCEPT !.sequence = req.sequence]

\* the tables as they were before the requests in flight began
request_base ==
    IF \A v \in Workers : requests[v].pc = "idle"
    THEN <<stages, apps>>
    ELSE requests[CHOOSE v \in Workers : requests[v].pc # "idle"].base

\* CandidateApplication.objects.get(id=...) and the assignments: the handler
\* holds a copy of the row as it is now
request_load(w, req) ==
    /\ requests[w].pc = "idle"
    /\ req.app_id \in AppIds(apps)
    /\ requests' = [requests EXCEPT ![w] =
                       [req EXCEPT !.pc = "loaded",
                                   !.obj = request_fields(req, apps[req.app_id]),
                                   !.base = request_base]]
    /\ UNCHANGED <<recruitments, stages, apps, employees, last, notified, CACHE>>

\* the request of a worker ends with this result of save()
request_done(w, r) ==
    /\ requests' = [requests EXCEPT ![w].pc = "done", ![w].error = r.error]
    /\ stages' = r.stages
    /\ apps' = r.apps

\* save() of the row in memory up to its next query: a row that is not
\* canceled goes on to the uniqueness test and super().save(), which writes
\* every field of the copy; a canceled row stops at the result of the
\* cancelled stage query
request_saved(w, self) ==
    IF self.job_position_id \notin recruitments[self.recruitment_id].open_positions
    THEN request_done(w, Saved("ValidationError", stages, apps))
    ELSE IF self.canceled
    THEN /\ requests' = [requests EXCEPT
                            ![w].pc = "looked",
                            ![w].obj = self,
                            ![w].cancelled_stage =
                                IF CancelledStages(stages, self.recruitment_id) = {}
                                THEN None
                                ELSE First(stages,
                                           CancelledStages(stages,
                                                           self.recruitment_id))]
         /\ UNCHANGED <<stages, apps>>
    ELSE request_done(w, save_unique(self, requests[w].app_id, stages, apps))

request_save(w) ==
    /\ requests[w].pc = "loaded"
    /\ request_saved(w, save_canceled(
                            save_job_position(save_hired(requests[w].obj, stages)),
                            stages))
    /\ UNCHANGED <<recruitments, employees, last, notified, CACHE>>

\* save() from the result of the cancelled stage query on: the stage is
\* created when the query found none, and unique_together (recruitment_id,
\* stage) refuses a second "Cancelled Candidates"
request_created(w, self, cancelled_stage) ==
    IF cancelled_stage # None
    THEN request_done(w, save_unique([self EXCEPT !.stage_id = cancelled_stage],
                                     requests[w].app_id, stages, apps))
    ELSE IF get_by_label(stages, self.recruitment_id, "Cancelled Candidates") # {}
    THEN request_done(w, Saved("IntegrityError", stages, apps))
    ELSE request_done(w, save_unique([self EXCEPT !.stage_id = Len(stages) + 1],
                                     requests[w].app_id,
                                     Append(stages,
                                            Stage(self.recruitment_id,
                                                  "Cancelled Candidates",
                                                  "cancelled", 50, {})),
                                     apps))

request_create(w) ==
    /\ requests[w].pc = "looked"
    /\ request_created(w, requests[w].obj, requests[w].cancelled_stage)
    /\ UNCHANGED <<recruitments, employees, last, notified, CACHE>>

\* a request served alone, from its load to the end of its save()
run_request(req, S, A) ==
    save(request_fields(req, A[req.app_id]), req.app_id, S, A)

\* two requests served one after the other
run_requests(first, second, S, A) ==
    run_request(second, run_request(first, S, A).stages,
                run_request(first, S, A).apps)

\* candidate_application_archive()
candidate_application_archive(app_id) ==
    IF app_id \notin AppIds(apps)
    THEN /\ last' = Response("Archive", "Http404", FALSE, <<>>)
         /\ notified' = "none"
         /\ UNCHANGED <<requests, CACHE>>
         /\ UNCHANGED <<recruitments, stages, apps, employees>>
    ELSE LET r == save([apps[app_id] EXCEPT !.is_active = FALSE],
                       app_id, stages, apps)
         IN /\ stages' = r.stages
            /\ apps' = r.apps
            /\ notified' = "none"
            /\ UNCHANGED <<requests, CACHE>>
            /\ last' = Response("Archive", IF r.error = "" THEN "success" ELSE r.error,
                                FALSE, <<>>)
            /\ UNCHANGED <<recruitments, employees>>

\* a conversion that finds no account whatever the e-mail
user_exists_never(email) == FALSE

\* User.objects.filter(username=email).exists(): the account of an
\* employee is created with the employee, under the employee's e-mail
user_exists(email) == \E e \in 1..Len(employees) : employees[e] = email

\* candidate_application_conversion(): ConvertToEmployee.  The view runs in
\* transaction.atomic and catches what save() raises: a ValidationError
\* leaves the transaction to commit with the employee in it, a database
\* error marks it for rollback and the employee goes with it.
candidate_application_conversion(app_id) ==
    IF app_id \notin AppIds(apps)
    THEN /\ last' = Response("Convert", "Http404", FALSE, <<>>)
         /\ notified' = "none"
         /\ UNCHANGED <<requests, CACHE>>
         /\ UNCHANGED <<recruitments, stages, apps, employees>>
    ELSE LET candidate_app == apps[app_id]
         IN IF candidate_app.converted_employee_id # None
            THEN /\ last' = Response("Convert", "info", FALSE, <<>>)
                 /\ notified' = "none"
                 /\ UNCHANGED <<requests, CACHE>>
                 /\ UNCHANGED <<recruitments, stages, apps, employees>>
            ELSE IF user_exists(candidate_app.email)
            THEN /\ last' = Response("Convert", "danger", FALSE, <<>>)
                 /\ notified' = "none"
                 /\ UNCHANGED <<requests, CACHE>>
                 /\ UNCHANGED <<recruitments, stages, apps, employees>>
            ELSE LET new_employee == Len(employees) + 1
                     r == save([candidate_app EXCEPT
                                   !.converted_employee_id = new_employee,
                                   !.converted = TRUE],
                               app_id, stages, apps)
                 IN /\ employees' = IF r.error = "IntegrityError"
                                   THEN employees
                                   ELSE Append(employees, candidate_app.email)
                    /\ stages' = r.stages
                    /\ apps' = r.apps
                    /\ notified' = "none"
                    /\ UNCHANGED <<requests, CACHE>>
                    /\ last' = Response("Convert",
                                        IF r.error = "" THEN "success" ELSE "danger",
                                        FALSE, <<>>)
                    /\ UNCHANGED recruitments

\* an admin change form whose save() ran outside a transaction
CandidateApplicationAdmin_save_autocommit(app_id, employee) ==
    /\ app_id \in AppIds(apps)
    /\ stages' = save([apps[app_id] EXCEPT !.converted_employee_id = employee],
                      app_id, stages, apps).stages
    /\ apps' = save([apps[app_id] EXCEPT !.converted_employee_id = employee],
                    app_id, stages, apps).apps
    /\ last' = Response("AdminSave",
                        IF save([apps[app_id] EXCEPT !.converted_employee_id = employee],
                                app_id, stages, apps).error = ""
                        THEN "success"
                        ELSE save([apps[app_id] EXCEPT !.converted_employee_id = employee],
                                  app_id, stages, apps).error,
                        FALSE, <<>>)
    /\ notified' = "none"
    /\ UNCHANGED <<recruitments, employees, requests, CACHE>>

\* CandidateApplicationAdmin: the change form of the admin site, which
\* offers converted_employee_id, submitted with another employee chosen.
\* ModelAdmin runs the change inside transaction.atomic, so an exception
\* of save() leaves nothing written.
CandidateApplicationAdmin_save(app_id, employee) ==
    /\ app_id \in AppIds(apps)
    /\ LET r == save([apps[app_id] EXCEPT !.converted_employee_id = employee],
                     app_id, stages, apps)
       IN /\ stages' = IF r.error = "" THEN r.stages ELSE stages
          /\ apps' = r.apps
          /\ notified' = "none"
          /\ UNCHANGED <<requests, CACHE>>
          /\ last' = Response("AdminSave",
                              IF r.error = "" THEN "success" ELSE r.error,
                              FALSE, <<>>)
          /\ UNCHANGED <<recruitments, employees>>

(* ---------------------------- projections ------------------------------- *)
\* .order_by("sequence") over the rows ids of table T, and Meta.ordering =
\* ["sequence"]; rows of equal sequence in primary-key order
RECURSIVE order_by_sequence(_, _)
order_by_sequence(ids, T) ==
    IF ids = {} THEN <<>>
    ELSE <<First(T, ids)>> \o order_by_sequence(ids \ {First(T, ids)}, T)

\* limited_paginator_qry(): the first page of Paginator(queryset, 10)
limited_paginator_qry(queryset) ==
    IF Len(queryset) <= PageSize THEN queryset ELSE SubSeq(queryset, 1, PageSize)

\* filter_pipeline() stores the snapshot of the session under its key (CACHE
\* is the empty sequence while the session has none): the queries of the
\* active applications and of the stages, both ordered by sequence, which
\* run against the tables whenever a view filters them
filter_pipeline ==
    /\ CACHE' = <<[candidate_applications |-> "is_active", stages |-> "all"]>>
    /\ last' = Response("filter_pipeline", "success", FALSE, <<>>)
    /\ notified' = "none"
    /\ UNCHANGED <<recruitments, stages, apps, employees, requests>>

\* the applications candidate_component() renders for a stage id: from the
\* snapshot when the session has one, else from the table
candidate_component_without_cache(stage_id) ==
    IF lookup_stage(stage_id) = None
    THEN <<>>
    ELSE order_by_sequence({a \in AppIds(apps) : apps[a].stage_id = stage_id},
                           apps)

candidate_component_with_cache(stage_id) ==
    order_by_sequence({a \in AppIds(apps) :
                          /\ apps[a].is_active
                          /\ apps[a].stage_id = lookup_stage(stage_id)},
                      apps)

candidate_component_candidates(stage_id, cache_data) ==
    limited_paginator_qry(IF cache_data = <<>>
                          THEN candidate_component_without_cache(stage_id)
                          ELSE candidate_component_with_cache(stage_id))

\* a read leaves every table, the requests in flight and the snapshot alone
rendered(op, context) ==
    /\ last' = Response(op, "success", FALSE, context)
    /\ notified' = "none"
    /\ UNCHANGED <<recruitments, stages, apps, employees, requests, CACHE>>

\* candidate_component()
candidate_component(stage_id) ==
    rendered("candidate_component",
             candidate_component_candidates(stage_id, CACHE))

\* the stages stage_component() renders; both branches order the stages of
\* the recruitment by sequence
stage_component_ordered_stages(rec_id, cache_data) ==
    order_by_sequence(StagesOf(stages, rec_id), stages)

\* stage_component()
stage_component(rec_id) ==
    /\ rec_id \in 1..Len(recruitments)
    /\ rendered("stage_component", stage_component_ordered_stages(rec_id, CACHE))

\* pipeline_data of candidate_application_pipeline(): one entry per stage,
\* in the order of Stage.Meta.ordering, with the active applications of the
\* stage ordered by sequence
pipeline_data_from(ordered_stages) ==
    [k \in 1..Len(ordered_stages) |->
        [stage |-> ordered_stages[k],
         applications |->
            order_by_sequence({a \in AppIds(apps) :
                                  /\ apps[a].is_active
                                  /\ apps[a].stage_id = ordered_stages[k]},
                              apps)]]

pipeline_data == pipeline_data_from(order_by_sequence(StageIds(stages), stages))

\* candidate_application_pipeline()
candidate_application_pipeline ==
    rendered("candidate_application_pipeline", pipeline_data)

\* get_stage_badge_count()
get_stage_badge_count(stage_id) ==
    /\ stage_id \in StageIds(stages)
    /\ rendered("get_stage_badge_count",
                <<Cardinality({a \in AppIds(apps) :
                                  apps[a].is_active /\ apps[a].stage_id = stage_id})>>)

\* the row candidate_applications_view() creates when the application table
\* is empty: first recruitment, its first stage, the first job position
test_application(email, job_position) ==
    [recruitment_id |-> 1,
     stage_id |-> First(stages, StagesOf(stages, 1)),
     job_position_id |-> job_position, email |-> email, sequence |-> 0,
     hired |-> FALSE, canceled |-> FALSE, converted |-> FALSE,
     converted_employee_id |-> None, start_onboard |-> FALSE,
     is_active |-> TRUE]

\* the applications of a candidate, by e-mail
applications_of(email, A) == {a \in AppIds(A) : A[a].email = email}

\* candidate_applications_view(): the applications tab of a candidate.  An
\* exception of objects.create() is caught and printed.
candidate_applications_view(email, job_position) ==
    /\ IF apps = <<>> /\ recruitments # <<>> /\ StagesOf(stages, 1) # {}
       THEN /\ stages' = save(test_application(email, job_position), 1,
                              stages, apps).stages
            /\ apps' = save(test_application(email, job_position), 1,
                            stages, apps).apps
       ELSE UNCHANGED <<stages, apps>>
    /\ last' = Response("candidate_applications_view", "success", FALSE,
                        <<applications_of(email, apps')>>)
    /\ notified' = "none"
    /\ UNCHANGED <<recruitments, employees, requests, CACHE>>

(* ------------------------------ requests -------------------------------- *)
\* ids a request can carry: every existing row and one id that matches none
AppIdInputs == 1..(Len(apps) + 1)

TargetStageIds ==
    {i \in StageIds(stages) : stages[i].stage_type \in TargetTypes}
        \cup {Len(stages) + 1}

OrderLists ==
    UNION {[1..n -> AppIdInputs] : n \in 1..MaxOrderLen}

SequenceData ==
    {<<p>> : p \in AppIdInputs \X SequenceInputs}

Next ==
    \/ \E form \in RecruitmentForms : recruitment(form)
    \/ \E rec_id \in 1..Len(recruitments), stage_id \in TargetStageIds,
          job \in JobInputs, email \in Emails :
           /\ Len(apps) < MaxApps
           /\ CandidateApplicationCreationForm_save(rec_id, stage_id, job, email)
    \/ \E actor \in Actors, app_id \in AppIdInputs, stage_id \in TargetStageIds :
           candidate_application_stage_update(actor, app_id, stage_id)
    \/ \E order_list \in OrderLists, stage_id \in TargetStageIds :
           update_candidate_stage_and_sequence(order_list, stage_id)
    \/ \E order_list \in OrderLists, stage_id \in TargetStageIds :
           update_candidate_sequence(order_list, stage_id)
    \/ \E canIds \in OrderLists, stage_id \in TargetStageIds :
           change_candidate_stage(canIds, stage_id)
    \/ \E sequence_data \in SequenceData : candidate_sequence_update(sequence_data)
    \/ \E app_id \in AppIdInputs : candidate_application_archive(app_id)
    \/ \E app_id \in AppIdInputs : candidate_application_conversion(app_id)

Spec == Init /\ [][Next]_vars

\* the move handlers next to stage edits: a recruitment can lose its
\* cancelled-type stage when that stage is given another type
CancelledStageIds == {i \in StageIds(stages) : stages[i].stage_type = "cancelled"}

NextCancel ==
    \/ \E form \in RecruitmentForms : recruitment(form)
    \/ \E stage_id \in CancelledStageIds : stage_update(stage_id, "rejected")
    \/ \E rec_id \in 1..Len(recruitments), stage_id \in TargetStageIds,
          job \in JobInputs, email \in Emails :
           /\ Len(apps) < MaxApps
           /\ CandidateApplicationCreationForm_save(rec_id, stage_id, job, email)
    \/ \E actor \in Actors, app_id \in AppIdInputs, stage_id \in TargetStageIds :
           candidate_application_stage_update(actor, app_id, stage_id)
    \/ \E order_list \in OrderLists, stage_id \in TargetStageIds :
           update_candidate_stage_and_sequence(order_list, stage_id)
    \/ \E canIds \in OrderLists, stage_id \in TargetStageIds :
           change_candidate_stage(canIds, stage_id)
    \/ \E app_id \in AppIdInputs : candidate_application_conversion(app_id)

SpecCancel == Init /\ [][NextCancel]_vars

\* moves and reorders of two applications next to recruitment edits: an
\* application can outlive the open position it was created for
ReorderStageIds ==
    {i \in StageIds(stages) : stages[i].stage_type \in {"sourced", "selected"}}

NextReorder ==
    \/ \E form \in RecruitmentForms : recruitment(form)
    \/ \E rec_id \in 1..Len(recruitments), form \in RecruitmentUpdateForms :
           recruitment_update(rec_id, form)
    \/ \E rec_id \in 1..Len(recruitments), stage_id \in ReorderStageIds,
          job \in JobInputs, email \in Emails :
           /\ Len(apps) < MaxReorderApps
           /\ CandidateApplicationCreationForm_save(rec_id, stage_id, job, email)
    \/ \E actor \in Actors, app_id \in AppIdInputs, stage_id \in ReorderStageIds :
           candidate_application_stage_update(actor, app_id, stage_id)
    \/ \E order_list \in OrderLists, stage_id \in ReorderStageIds :
           update_candidate_stage_and_sequence(order_list, stage_id)

SpecReorder == Init /\ [][NextReorder]_vars

\* conversions of two applications under one e-mail, next to recruitment
\* edits and to the admin site's change of the converted employee
EmployeeInputs == 0..Len(employees)

NextConvert ==
    \/ \E form \in RecruitmentForms : recruitment(form)
    \/ \E rec_id \in 1..Len(recruitments), form \in RecruitmentUpdateForms :
           recruitment_update(rec_id, form)
    \/ \E rec_id \in 1..Len(recruitments), stage_id \in ReorderStageIds,
          job \in JobInputs, email \in Emails :
           /\ Len(apps) < MaxReorderApps
           /\ CandidateApplicationCreationForm_save(rec_id, stage_id, job, email)
    \/ \E app_id \in AppIdInputs : candidate_application_conversion(app_id)
    \/ \E app_id \in AppIdInputs, employee \in EmployeeInputs :
           CandidateApplicationAdmin_save(app_id, employee)

SpecConvert == Init /\ [][NextConvert]_vars

\* two requests on the applications of one recruitment, served at the
\* same time: the steps of one can fall between the load and the write of
\* the other
ConcurrentEmails == {1, 2}

ConcurrentStageIds ==
    {i \in StageIds(stages) : stages[i].stage_type \in {"selected", "cancelled"}}

ConcurrentRequests ==
    {[IdleRequest EXCEPT !.op = op, !.app_id = app_id, !.stage_id = stage_id] :
        op \in {"MoveStage", "Reorder", "BulkMove"}, app_id \in AppIds(apps),
        stage_id \in ConcurrentStageIds}
    \cup {[IdleRequest EXCEPT !.op = "SetSequence", !.app_id = app_id,
                              !.sequence = 1] : app_id \in AppIds(apps)}

AllIdle == \A w \in Workers : requests[w].pc = "idle"

NextConcurrent ==
    \/ \E form \in RecruitmentForms :
           /\ AllIdle
           /\ Len(recruitments) < MaxStageRecruitments
           /\ recruitment(form)
    \/ \E stage_id \in CancelledStageIds :
           /\ AllIdle
           /\ stage_update(stage_id, "rejected")
    \/ \E rec_id \in 1..Len(recruitments), stage_id \in ConcurrentStageIds,
          job \in JobInputs, email \in ConcurrentEmails :
           /\ AllIdle
           /\ Len(apps) < MaxReorderApps
           /\ CandidateApplicationCreationForm_save(rec_id, stage_id, job, email)
    \/ \E w \in Workers, req \in ConcurrentRequests : request_load(w, req)
    \/ \E w \in Workers : request_save(w)
    \/ \E w \in Workers : request_create(w)

SpecConcurrent == Init /\ [][NextConcurrent]_vars

\* saves that are refused: applications of one recruitment, two of them at
\* most, created with or without a job position, converted, edited in the
\* admin site and renumbered, while the cancelled stage is retyped
NextSave ==
    \/ \E form \in RecruitmentForms :
           /\ Len(recruitments) < MaxStageRecruitments
           /\ recruitment(form)
    \/ \E stage_id \in CancelledStageIds : stage_update(stage_id, "rejected")
    \/ \E rec_id \in 1..Len(recruitments), stage_id \in ConcurrentStageIds,
          job \in JobInputs, email \in ConcurrentEmails :
           /\ Len(apps) < MaxReorderApps
           /\ CandidateApplicationCreationForm_save(rec_id, stage_id, job, email)
    \/ \E sequence_data \in SequenceData : candidate_sequence_update(sequence_data)
    \/ \E app_id \in AppIdInputs : candidate_application_conversion(app_id)
    \/ \E app_id \in AppIdInputs, employee \in EmployeeInputs :
           CandidateApplicationAdmin_save(app_id, employee)

SpecSave == Init /\ [][NextSave]_vars

\* the display order of the applications of one recruitment, set while
\* applications are created and archived and the cancelled stage is retyped
NextSequence ==
    \/ \E form \in RecruitmentForms :
           /\ Len(recruitments) < MaxStageRecruitments
           /\ recruitment(form)
    \/ \E stage_id \in CancelledStageIds : stage_update(stage_id, "rejected")
    \/ \E rec_id \in 1..Len(recruitments), stage_id \in TargetStageIds,
          job \in JobInputs, email \in ConcurrentEmails :
           /\ Len(apps) < MaxReorderApps
           /\ CandidateApplicationCreationForm_save(rec_id, stage_id, job, email)
    \/ \E sequence_data \in SequenceData : candidate_sequence_update(sequence_data)
    \/ \E app_id \in AppIdInputs : candidate_application_archive(app_id)

SpecSequence == Init /\ [][NextSequence]_vars

\* the pipeline pages of one recruitment: the reads, next to the creation,
\* renumbering and archiving of applications and to the storing of the
\* session's snapshot
NextProjection ==
    \/ \E form \in RecruitmentForms :
           /\ Len(recruitments) < MaxStageRecruitments
           /\ recruitment(form)
    \/ \E rec_id \in 1..Len(recruitments), stage_id \in ReorderStageIds,
          job \in JobInputs, email \in ConcurrentEmails :
           /\ Len(apps) < MaxReorderApps
           /\ CandidateApplicationCreationForm_save(rec_id, stage_id, job, email)
    \/ \E sequence_data \in SequenceData : candidate_sequence_update(sequence_data)
    \/ \E app_id \in AppIdInputs : candidate_application_archive(app_id)
    \/ \E order_list \in OrderLists, stage_id \in ReorderStageIds :
           update_candidate_stage_and_sequence(order_list, stage_id)
    \/ filter_pipeline
    \/ \E stage_id \in TargetStageIds : candidate_component(stage_id)
    \/ \E rec_id \in 1..Len(recruitments) : stage_component(rec_id)
    \/ candidate_application_pipeline
    \/ \E stage_id \in TargetStageIds : get_stage_badge_count(stage_id)
    \/ \E email \in ConcurrentEmails, job_position \in JobInputs \ {None} :
           candidate_applications_view(email, job_position)

SpecProjection == Init /\ [][NextProjection]_vars

\* the stage board of one recruitment: stages added, retyped and
\* renumbered, the default stages ensured again, and an application whose
\* save on archiving looks the cancelled stage up
StageSequenceIds ==
    {i \in StageIds(stages) : stages[i].stage_type = "on-hold"}

StageSequenceData ==
    UNION {[1..n -> StageSequenceIds \X StageSequenceInputs] :
              n \in 1..MaxSequenceDataLen}

NextStages ==
    \/ \E form \in RecruitmentForms :
           /\ Len(recruitments) < MaxStageRecruitments
           /\ recruitment(form)
    \/ \E rec_id \in 1..Len(recruitments), label \in StageLabelInputs,
          stage_type \in StageTypeInputs :
           stage_view(rec_id, label, stage_type,
                      recruitments[rec_id].default_stage_manager)
    \/ \E sequence_data \in StageSequenceData :
           stage_sequence_update(sequence_data)
    \/ \E stage_id \in CancelledStageIds : stage_update(stage_id, "rejected")
    \/ \E rec_id \in 1..Len(recruitments) :
           Recruitment_create_default_stages(rec_id)
    \/ \E rec_id \in 1..Len(recruitments), stage_id \in TargetStageIds,
          job \in JobInputs, email \in Emails :
           /\ Len(apps) < MaxApps
           /\ CandidateApplicationCreationForm_save(rec_id, stage_id, job, email)
    \/ \E app_id \in AppIdInputs : candidate_application_archive(app_id)

SpecStages == Init /\ [][NextStages]_vars

(* ------------------------------ properties ------------------------------ *)
\* type of the stage an application row points at
stage_type_of(S, a) ==
    IF a.stage_id = None THEN "none" ELSE S[a.stage_id].stage_type

\* the row sits in a cancelled-type stage of its own recruitment
InOwnCancelledStage(S, a) ==
    /\ a.stage_id # None
    /\ S[a.stage_id].stage_type = "cancelled"
    /\ S[a.stage_id].recruitment_id = a.recruitment_id

\* every row that has a stage has a stage of its own recruitment
StagesOwned(S, A) ==
    \A a \in AppIds(A) :
        A[a].stage_id # None => S[A[a].stage_id].recruitment_id = A[a].recruitment_id

\* stage ids a request names that match a stage row
ExistingTargets == TargetStageIds \cap StageIds(stages)

\* C1, as stated: after every successful MoveStage, for every application and
\* every target stage, the persisted application has hired = TRUE if and
\* only if its resulting stage is of type "selected" and canceled = FALSE.
C1_MoveStage_hired_iff_selected ==
    [][(last'.op = "MoveStage" /\ last'.type = "success") =>
        \A actor \in Actors, app_id \in AppIds(apps), stage_id \in ExistingTargets :
            candidate_application_stage_update(actor, app_id, stage_id) =>
                (apps'[app_id].hired <=>
                    (/\ stage_type_of(stages', apps'[app_id]) = "selected"
                     /\ ~apps'[app_id].canceled))]_vars

\* C1, amended: after every successful MoveStage an application that has not
\* been converted has hired = TRUE if and only if its resulting stage is of
\* type "selected" and canceled = FALSE; a converted application is saved
\* with hired = FALSE and canceled = FALSE whatever the stage.
C1_MoveStage_hired_iff_selected_unless_converted ==
    [][(last'.op = "MoveStage" /\ last'.type = "success") =>
        \A actor \in Actors, app_id \in AppIds(apps), stage_id \in ExistingTargets :
            candidate_application_stage_update(actor, app_id, stage_id) =>
                IF apps'[app_id].converted
                THEN ~apps'[app_id].hired /\ ~apps'[app_id].canceled
                ELSE (apps'[app_id].hired <=>
                        (/\ stage_type_of(stages', apps'[app_id]) = "selected"
                         /\ ~apps'[app_id].canceled))]_vars

\* a successful MoveStage has put an unconverted application into a
\* selected-type stage and the row is hired
C1_Witness ==
    /\ last.op = "MoveStage"
    /\ last.type = "success"
    /\ \E a \in AppIds(apps) :
          /\ ~apps[a].converted
          /\ apps[a].hired
          /\ ~apps[a].canceled
          /\ ~apps[a].start_onboard
          /\ stage_type_of(stages, apps[a]) = "selected"

\* C2: after every successful move (MoveStage, Reorder, BulkMove) that is a
\* cancel request, i.e. the application goes into save() with canceled set
\* or the target stage is of type "cancelled", the application's persisted
\* stage is a cancelled-type stage of the application's own recruitment,
\* whichever stage id the request named.
C2_cancel_request_lands_in_own_cancelled_stage ==
    [][/\ (last'.op = "MoveStage" /\ last'.type = "success") =>
            \A app_id \in AppIds(apps), stage_id \in ExistingTargets :
                (/\ stages[stage_id].stage_type = "cancelled"
                 /\ \E actor \in Actors :
                       candidate_application_stage_update(actor, app_id, stage_id))
                    => InOwnCancelledStage(stages', apps'[app_id])
       /\ (last'.op = "Reorder" /\ last'.type = "success") =>
            \A order_list \in OrderLists, stage_id \in TargetStageIds :
                \A k \in 1..Len(order_list) :
                    (/\ order_list[k] \in AppIds(apps)
                     /\ \/ apps[order_list[k]].canceled
                        \/ /\ stage_id \in StageIds(stages)
                           /\ stages[stage_id].stage_type = "cancelled"
                     /\ ~InOwnCancelledStage(stages', apps'[order_list[k]]))
                        => ~update_candidate_stage_and_sequence(order_list, stage_id)
       /\ (last'.op = "BulkMove" /\ last'.type = "success") =>
            \A canIds \in OrderLists, stage_id \in ExistingTargets :
                \A k \in 1..Len(canIds) :
                    (/\ canIds[k] \in AppIds(apps)
                     /\ stages[stage_id].recruitment_id =
                            apps[canIds[k]].recruitment_id
                     /\ \/ apps[canIds[k]].canceled
                        \/ stages[stage_id].stage_type = "cancelled"
                     /\ ~InOwnCancelledStage(stages', apps'[canIds[k]]))
                        => ~change_candidate_stage(canIds, stage_id)]_vars

\* a successful move has landed an application of the second recruitment in
\* the "Cancelled Candidates" stage that save() created for that recruitment
C2_Witness ==
    /\ last.op \in {"MoveStage", "Reorder", "BulkMove"}
    /\ last.type = "success"
    /\ \E a \in AppIds(apps) :
          /\ apps[a].canceled
          /\ apps[a].recruitment_id = 2
          /\ InOwnCancelledStage(stages, apps[a])
          /\ stages[apps[a].stage_id].stage = "Cancelled Candidates"

\* C3, as stated: MoveStage is allowed if and only if the actor is a
\* superuser, a manager of the target stage, or a recruitment manager of the
\* recruitment that owns the application; for every other actor the call is
\* rejected and the application row is exactly as before the call.
C3_MoveStage_allowed_iff_authorized ==
    [][last'.op = "MoveStage" =>
        \A actor \in Actors, app_id \in AppIds(apps), stage_id \in ExistingTargets :
            candidate_application_stage_update(actor, app_id, stage_id) =>
                IF \/ actor.is_superuser
                   \/ actor.employee \in stages[stage_id].stage_managers
                   \/ actor.employee \in
                        recruitments[apps[app_id].recruitment_id].recruitment_managers
                THEN last'.type # "danger"
                ELSE last'.type = "danger" /\ apps' = apps]_vars

\* C4, as stated: a MoveStage, Reorder or BulkMove call, with whatever stage
\* id, leaves every application in a stage of the application's own
\* recruitment (a call that starts from such a state ends in such a state).
C4_stage_of_own_recruitment ==
    [][(last'.op \in {"MoveStage", "Reorder", "BulkMove"}
            /\ StagesOwned(stages, apps)) => StagesOwned(stages', apps')]_vars

\* C5, as stated, for the applications that have not been converted: in
\* every persisted state canceled is TRUE iff the current stage is of type
\* "cancelled", and hired is TRUE iff the current stage is of type
\* "selected" and the application is not canceled.
C5_flags_follow_stage_type ==
    \A a \in AppIds(apps) :
        ~apps[a].converted =>
            /\ apps[a].canceled <=> (stage_type_of(stages, apps[a]) = "cancelled")
            /\ apps[a].hired <=>
                  (stage_type_of(stages, apps[a]) = "selected" /\ ~apps[a].canceled)

\* C6, as stated: after a Reorder every listed application that exists has
\* sequence equal to a 0-based index at which the list names it and stage
\* equal to the target stage, and every application the list does not name
\* is as it was.
C6_Reorder_sets_sequence_and_stage ==
    [][last'.op = "Reorder" =>
        \A order_list \in OrderLists, stage_id \in ExistingTargets :
            update_candidate_stage_and_sequence(order_list, stage_id) =>
                \A a \in AppIds(apps) :
                    IF \E k \in 1..Len(order_list) : order_list[k] = a
                    THEN /\ \E k \in 1..Len(order_list) :
                               order_list[k] = a /\ apps'[a].sequence = k - 1
                         /\ apps'[a].stage_id = stage_id
                    ELSE apps'[a] = apps[a]]_vars

\* C7, as stated: BulkMove reports the outcome of every item: whatever
\* happens to the other items of the list, each listed id that matches no
\* application is reported as not found.
C7_BulkMove_reports_every_item ==
    [][last'.op = "BulkMove" =>
        \A canIds \in OrderLists, stage_id \in TargetStageIds :
            change_candidate_stage(canIds, stage_id) =>
                Cardinality({k \in 1..Len(canIds) : canIds[k] \notin AppIds(apps)})
                    = Cardinality({k \in 1..Len(last'.messages) :
                                      last'.messages[k] = "not found"})]_vars

\* C8, as stated: BulkMove of the one application a to a stage S of a's
\* recruitment leaves a with the stage, hired, canceled and start_onboard
\* that MoveStage of a to S by an authorized actor leaves from the same
\* prior state.
C8_BulkMove_equals_MoveStage ==
    [][last'.op = "BulkMove" =>
        \A app_id \in AppIds(apps), stage_id \in ExistingTargets :
            (/\ stages[stage_id].recruitment_id = apps[app_id].recruitment_id
             /\ change_candidate_stage(<<app_id>>, stage_id)) =>
                LET m == save(stage_update_fields(apps[app_id], stage_id),
                              app_id, stages, apps).apps[app_id]
                    b == apps'[app_id]
                IN /\ b.stage_id = m.stage_id
                   /\ b.hired = m.hired
                   /\ b.canceled = m.canceled
                   /\ b.start_onboard = m.start_onboard]_vars

\* C9, as stated: a Reorder or BulkMove that puts an application into a
\* selected-type stage succeeds, however many applications the stage holds.
C9_move_into_selected_succeeds ==
    [][/\ last'.op = "Reorder" =>
            \A order_list \in OrderLists, stage_id \in ExistingTargets :
                (/\ update_candidate_stage_and_sequence(order_list, stage_id)
                 /\ stages[stage_id].stage_type = "selected"
                 /\ \E k \in 1..Len(order_list) :
                       /\ order_list[k] \in AppIds(apps)
                       /\ apps'[order_list[k]].stage_id = stage_id)
                    => last'.type = "success"
       /\ last'.op = "BulkMove" =>
            \A canIds \in OrderLists, stage_id \in ExistingTargets :
                (/\ change_candidate_stage(canIds, stage_id)
                 /\ stages[stage_id].stage_type = "selected"
                 /\ \E k \in 1..Len(canIds) :
                       /\ canIds[k] \in AppIds(apps)
                       /\ apps'[canIds[k]].stage_id = stage_id)
                    => last'.type = "success"]_vars

\* non-canceled applications in a stage, and whether they reach the vacancy
\* of the stage's recruitment
vacancy_reached(S, A, stage_id) ==
    Cardinality({a \in AppIds(A) : A[a].stage_id = stage_id /\ ~A[a].canceled})
        >= recruitments[S[stage_id].recruitment_id].vacancy

\* C10, as stated: after a move into a selected-type stage by MoveStage,
\* Reorder or BulkMove the result carries the vacancy advisory if and only if
\* the number of non-canceled applications in the target stage is at least
\* the recruitment's vacancy.
C10_advisory_iff_vacancy_reached ==
    [][/\ (last'.op = "MoveStage" /\ last'.type = "success") =>
            \A actor \in Actors, app_id \in AppIds(apps), stage_id \in ExistingTargets :
                (/\ candidate_application_stage_update(actor, app_id, stage_id)
                 /\ stages[stage_id].stage_type = "selected")
                    => (last'.message <=> vacancy_reached(stages', apps', stage_id))
       /\ last'.op = "Reorder" =>
            \A order_list \in OrderLists, stage_id \in ExistingTargets :
                (/\ update_candidate_stage_and_sequence(order_list, stage_id)
                 /\ stages[stage_id].stage_type = "selected")
                    => (last'.message <=> vacancy_reached(stages', apps', stage_id))
       /\ last'.op = "BulkMove" =>
            \A canIds \in OrderLists, stage_id \in ExistingTargets :
                (/\ change_candidate_stage(canIds, stage_id)
                 /\ stages[stage_id].stage_type = "selected"
                 /\ \E k \in 1..Len(canIds) :
                       /\ canIds[k] \in AppIds(apps)
                       /\ stages[stage_id].recruitment_id =
                              apps[canIds[k]].recruitment_id)
                    => (last'.message <=> vacancy_reached(stages', apps', stage_id))]_vars

\* C11, as stated: a Reorder in which the save of a listed application
\* raises an error leaves the stage and the sequence of every application
\* as they were before the call.
C11_Reorder_all_or_nothing ==
    [][(last'.op = "Reorder"
            /\ last'.type \in {"ValidationError", "IntegrityError"}) =>
        \A a \in AppIds(apps) :
            /\ apps'[a].stage_id = apps[a].stage_id
            /\ apps'[a].sequence = apps[a].sequence]_vars

\* C12: a notification is dispatched only by a MoveStage that was permitted
\* and whose save() has written the row (never by a rejected or failed
\* move), and when notify.send() raises, the row stays written and the
\* response is still the success response.
C12_notification_after_persisted_transition ==
    [][/\ (notified' # "none") =>
              /\ last'.op = "MoveStage"
              /\ last'.type = "success"
              /\ \E app_id \in AppIds(apps), stage_id \in StageIds(stages) :
                    /\ save(stage_update_fields(apps[app_id], stage_id),
                            app_id, stages, apps).error = ""
                    /\ apps' = save(stage_update_fields(apps[app_id], stage_id),
                                    app_id, stages, apps).apps
                    /\ apps'[app_id].start_onboard = FALSE
       /\ (last'.op = "MoveStage" /\ last'.type # "success") =>
              notified' = "none"
       /\ (last'.op = "MoveStage" /\ last'.type = "danger") =>
              apps' = apps]_vars

\* a move into a selected stage is written and answered with success although
\* notify.send() raised
C12_Witness ==
    /\ last.op = "MoveStage"
    /\ last.type = "success"
    /\ notified = "raised"
    /\ \E a \in AppIds(apps) :
          /\ stage_type_of(stages, apps[a]) = "selected"
          /\ apps[a].hired

\* C13: a ConvertToEmployee answered with success has created one employee
\* under the application's e-mail, and the application is linked to that
\* employee with converted true and hired and canceled false, whatever its
\* stage and flags were before.
C13_Convert_links_and_clears_flags ==
    [][(last'.op = "Convert" /\ last'.type = "success") =>
           /\ Len(employees') = Len(employees) + 1
           /\ \E a \in AppIds(apps) :
                 /\ apps[a].converted_employee_id = None
                 /\ employees'[Len(employees')] = apps[a].email
                 /\ apps'[a].converted_employee_id = Len(employees')
                 /\ apps'[a].converted
                 /\ ~apps'[a].hired
                 /\ ~apps'[a].canceled
                 /\ \A b \in AppIds(apps) \ {a} : apps'[b] = apps[b]]_vars

\* an application converted while it stood in a selected stage
C13_Witness ==
    /\ last.op = "Convert"
    /\ last.type = "success"
    /\ \E a \in AppIds(apps) :
          /\ apps[a].converted
          /\ apps[a].converted_employee_id = Len(employees)
          /\ stage_type_of(stages, apps[a]) = "selected"
          /\ ~apps[a].hired

\* C14: ConvertToEmployee on an application that is already converted or
\* linked to an employee, or whose e-mail already belongs to an account,
\* creates no employee and leaves every application as it was; a conversion
\* that follows a successful one of the same application creates no
\* second employee.
C14_Convert_refused_changes_nothing ==
    [][\A app_id \in AppIds(apps) :
           (/\ \/ apps[app_id].converted
               \/ apps[app_id].converted_employee_id # None
               \/ user_exists(apps[app_id].email)
            /\ candidate_application_conversion(app_id)) =>
               /\ employees' = employees
               /\ apps' = apps
               /\ last'.type \in {"info", "danger"}]_vars

\* a second conversion of a converted application was answered with the
\* "already converted" message and the one employee is still the only one
C14_Witness ==
    /\ last.op = "Convert"
    /\ last.type = "info"
    /\ Len(employees) = 1
    /\ \E a \in AppIds(apps) :
          apps[a].converted /\ apps[a].converted_employee_id = 1

\* C15: no employee is the converted employee of two applications, and a
\* save that would link an application to an employee another application
\* is linked to raises ValidationError and writes nothing.
C15_employee_of_at_most_one_application ==
    [][/\ \A a, b \in AppIds(apps') :
              (a # b /\ apps'[a].converted_employee_id # None) =>
                  apps'[a].converted_employee_id # apps'[b].converted_employee_id
       /\ \A app_id \in AppIds(apps), employee \in EmployeeInputs :
              (/\ employee # None
               /\ \E b \in AppIds(apps) \ {app_id} :
                     apps[b].converted_employee_id = employee
               /\ CandidateApplicationAdmin_save(app_id, employee)) =>
                  /\ last'.type = "ValidationError"
                  /\ apps' = apps]_vars

\* the admin site's change that would link a second application to the
\* employee of a converted one was rejected
C15_Witness ==
    /\ last.op = "AdminSave"
    /\ last.type = "ValidationError"
    /\ Len(apps) = 2
    /\ \E a \in AppIds(apps) :
          /\ apps[a].converted_employee_id = 1
          /\ \A b \in AppIds(apps) \ {a} : apps[b].converted_employee_id = None

\* the job position save() validates: the row's own, or the recruitment's
\* when the row has none, is outside the recruitment's open positions
job_outside_open_positions(self) ==
    save_job_position(self).job_position_id
        \notin recruitments[self.recruitment_id].open_positions

\* C16: a creation whose job position is outside the open positions of
\* its recruitment raises ValidationError and creates no row and no stage,
\* and no request modifies a stored row whose job position is outside the
\* open positions of its recruitment.
C16_job_outside_open_positions_rejected ==
    [][/\ \A rec_id \in 1..Len(recruitments), stage_id \in ReorderStageIds,
             job \in JobInputs, email \in Emails :
              (/\ last'.op = "Create"
               /\ job_outside_open_positions(
                      [recruitment_id |-> rec_id, job_position_id |-> job])
               /\ CandidateApplicationCreationForm_save(rec_id, stage_id,
                                                        job, email)) =>
                  /\ last'.type = "ValidationError"
                  /\ apps' = apps
                  /\ stages' = stages
       /\ \A a \in AppIds(apps) :
              job_outside_open_positions(apps[a]) => apps'[a] = apps[a]]_vars

\* a creation was rejected for its job position and the table is empty
C16_Witness ==
    /\ last.op = "Create"
    /\ last.type = "ValidationError"
    /\ apps = <<>>
    /\ recruitments # <<>>

\* label, type and sequence of the stages of a recruitment
StageRows(S, rec) ==
    {<<S[i].stage, S[i].stage_type, S[i].sequence>> : i \in StagesOf(S, rec)}

\* C17: create_default_stages() run on a recruitment that has its stages
\* leaves the labels, types and sequences of the stages as they were and
\* adds no row; and wherever it runs, running it once more changes nothing.
C17_create_default_stages_idempotent ==
    [][\A rec \in 1..Len(recruitments) :
           /\ (/\ last'.op = "create_default_stages"
               /\ Recruitment_create_default_stages(rec)) =>
                  /\ StageRows(stages', rec) = StageRows(stages, rec)
                  /\ Len(stages') = Len(stages)
           /\ create_default_stages(
                  create_default_stages(stages, rec,
                      recruitments[rec].default_stage_manager),
                  rec, recruitments[rec].default_stage_manager)
              = create_default_stages(stages, rec,
                    recruitments[rec].default_stage_manager)]_vars

\* create_default_stages() has run again on a recruitment that got a stage
\* of its own, and the recruitment has its eleven stages and that one
C17_Witness ==
    /\ last.op = "create_default_stages"
    /\ Cardinality(StagesOf(stages, 1)) = 12
    /\ Len(stages) = 12

\* C18, as stated: a recruitment that was just created has the nine
\* canonical stages, the labels, types and sequences of default_stages,
\* and next to them only cancelled-type stages; its sourced-type stage has
\* sequence 1 and a cancelled-type stage has the greatest sequence.
C18_nine_canonical_stages ==
    [][last'.op = "recruitment" =>
           /\ {r \in StageRows(stages', Len(recruitments')) : r[2] # "cancelled"}
              = {<<default_stages[k].stage, default_stages[k].stage_type,
                   default_stages[k].sequence>> : k \in 1..Len(default_stages)}
           /\ \A i \in StagesOf(stages', Len(recruitments')) :
                 stages'[i].stage_type = "sourced" => stages'[i].sequence = 1
           /\ \E c \in CancelledStages(stages', Len(recruitments')) :
                 \A i \in StagesOf(stages', Len(recruitments')) :
                     stages'[i].sequence <= stages'[c].sequence]_vars

\* C19, as stated: no two stages of one recruitment have the same sequence.
C19_stage_sequences_unique ==
    \A i, j \in StageIds(stages) :
        (i # j /\ stages[i].recruitment_id = stages[j].recruitment_id) =>
            stages[i].sequence # stages[j].sequence

\* the cancelled stage save() creates when the recruitment has none
LazyCancelledStages(S) ==
    {i \in StageIds(S) :
        S[i].stage = "Cancelled Candidates" /\ S[i].stage_type = "cancelled"}

\* C20, as stated: the cancelled stage a save() creates gets sequence 50 and
\* the step changes no other stage, and from then on its sequence is greater
\* than that of every stage of the recruitment that is not cancelled-type.
C20_lazy_cancelled_stage_stays_last ==
    [][/\ \A c \in LazyCancelledStages(stages') \ StageIds(stages) :
              /\ stages'[c].sequence = 50
              /\ \A i \in StageIds(stages) : stages'[i] = stages[i]
       /\ \A c \in LazyCancelledStages(stages') :
              \A i \in StagesOf(stages', stages'[c].recruitment_id) :
                  stages'[i].stage_type # "cancelled" =>
                      stages'[i].sequence < stages'[c].sequence]_vars

\* both workers have finished their requests
AllDone == \A w \in Workers : requests[w].pc = "done"

\* the application tables the two finished requests leave when one is served
\* after the other, from the tables they began with
SerialOutcomes ==
    {run_requests(requests[1], requests[2],
                  requests[1].base[1], requests[1].base[2]).apps,
     run_requests(requests[2], requests[1],
                  requests[1].base[1], requests[1].base[2]).apps}

\* C21, as stated: when two requests among MoveStage, Reorder, BulkMove and
\* SetSequence on the same application have both finished, whatever the
\* order of their loads and writes, the application table is the one that
\* serving them one after the other, in one of the two orders, produces.
C21_concurrent_writers_serialized ==
    (AllDone /\ requests[1].app_id = requests[2].app_id) =>
        apps \in SerialOutcomes

\* hired and canceled of a row agree with the type of its stage
flags_agree(S, a) ==
    /\ a.canceled <=> (stage_type_of(S, a) = "cancelled")
    /\ a.hired <=> (stage_type_of(S, a) = "selected" /\ ~a.canceled)

\* C22, as stated: when two requests among MoveStage, Reorder and BulkMove
\* on the same application have both finished, whatever the order of their
\* steps, the hired and canceled values of the row agree with the type of
\* the stage the row is in.
C22_flags_agree_with_persisted_stage ==
    (/\ AllDone
     /\ requests[1].app_id = requests[2].app_id
     /\ \A w \in Workers : requests[w].op \in {"MoveStage", "Reorder", "BulkMove"}) =>
        flags_agree(stages, apps[requests[1].app_id])

\* C30, as stated: when two requests that save canceled rows of two
\* applications of one recruitment began while the recruitment had no
\* cancelled-type stage and have both finished, whatever the order of their
\* steps, the recruitment has exactly one cancelled-type stage, neither
\* request raised an error, and both applications are in that stage.
C30_concurrent_cancellations_create_one_stage ==
    (/\ AllDone
     /\ requests[1].app_id # requests[2].app_id
     /\ \A w \in Workers :
           /\ requests[w].obj.canceled
           /\ CancelledStages(requests[w].base[1],
                              requests[w].obj.recruitment_id) = {}) =>
        /\ Cardinality(CancelledStages(stages, requests[1].obj.recruitment_id)) = 1
        /\ \A w \in Workers :
              /\ requests[w].error = ""
              /\ apps[requests[w].app_id].stage_id
                    \in CancelledStages(stages, requests[1].obj.recruitment_id)


\* a listing names every row of ids exactly once
lists_once(listing, ids) ==
    /\ Len(listing) = Cardinality(ids)
    /\ {listing[k] : k \in 1..Len(listing)} = ids

\* the rows of a listing follow one another in non-decreasing sequence
non_decreasing(listing, T) ==
    \A i, j \in 1..Len(listing) :
        i < j => T[listing[i]].sequence <= T[listing[j]].sequence

\* the active applications held by a stage
ActiveIn(stage_id) ==
    {a \in AppIds(apps) : apps[a].is_active /\ apps[a].stage_id = stage_id}

\* C23: every pipeline projection lists each stage of a recruitment exactly
\* once in non-decreasing stage-sequence order, empty stages included, and
\* lists for a stage exactly its active applications in non-decreasing
\* display-sequence order.  Checked on the stage component, the pipeline
\* view and the candidate component, with and without a snapshot.
C23_projections_list_stages_and_active_applications_in_order ==
    /\ \A rec_id \in 1..Len(recruitments) :
          /\ lists_once(stage_component_ordered_stages(rec_id, CACHE),
                        StagesOf(stages, rec_id))
          /\ non_decreasing(stage_component_ordered_stages(rec_id, CACHE), stages)
    /\ lists_once([k \in 1..Len(pipeline_data) |-> pipeline_data[k].stage],
                  StageIds(stages))
    /\ \A i, j \in 1..Len(pipeline_data) :
          (/\ i < j
           /\ stages[pipeline_data[i].stage].recruitment_id
                = stages[pipeline_data[j].stage].recruitment_id)
          => stages[pipeline_data[i].stage].sequence
                <= stages[pipeline_data[j].stage].sequence
    /\ \A k \in 1..Len(pipeline_data) :
          /\ lists_once(pipeline_data[k].applications,
                        ActiveIn(pipeline_data[k].stage))
          /\ non_decreasing(pipeline_data[k].applications, apps)
    /\ \A stage_id \in StageIds(stages) :
          /\ lists_once(candidate_component_candidates(stage_id, CACHE),
                        ActiveIn(stage_id))
          /\ non_decreasing(candidate_component_candidates(stage_id, CACHE), apps)

\* C27: the snapshot of the session is never a correctness dependency: with
\* a snapshot Reorder resolves the same stage, and the stage and candidate
\* components return the same stages and applications, as without one.
C27_snapshot_is_no_correctness_dependency ==
    \A cache_data \in {<<[candidate_applications |-> "is_active", stages |-> "all"]>>} :
        /\ \A stage_id \in TargetStageIds :
              /\ cached_stage(stage_id, cache_data) = cached_stage(stage_id, <<>>)
              /\ candidate_component_candidates(stage_id, cache_data)
                    = candidate_component_candidates(stage_id, <<>>)
        /\ \A rec_id \in 1..Len(recruitments) :
              stage_component_ordered_stages(rec_id, cache_data)
                = stage_component_ordered_stages(rec_id, <<>>)

\* the reads of the query/projection layer
ReadOps == {"candidate_application_pipeline", "stage_component",
            "candidate_component", "get_stage_badge_count",
            "candidate_applications_view"}

\* C24: no read of the query/projection layer (pipeline view, stage
\* component, candidate component, stage badge count, applications view of
\* a candidate) changes the stages or the applications.
C24_reads_mutate_nothing ==
    [][last'.op \in ReadOps => (stages' = stages /\ apps' = apps)]_vars


\* the fields SetSequence has to leave alone
same_but_sequence(before, after) ==
    /\ after.stage_id = before.stage_id
    /\ after.hired = before.hired
    /\ after.canceled = before.canceled
    /\ after.converted = before.converted
    /\ after.start_onboard = before.start_onboard

\* C25: a SetSequence that is carried out sets the sequence of the named
\* application to the position and leaves its stage, hired, canceled,
\* converted and start_onboard as they were; every other application is
\* unchanged.
C25_SetSequence_changes_only_sequence ==
    [][\A sequence_data \in SequenceData :
          (/\ last'.op = "SetSequence"
           /\ last'.type = "info"
           /\ sequence_data[1][1] \in AppIds(apps)
           /\ candidate_sequence_update(sequence_data))
          => \A a \in AppIds(apps) :
                IF a = sequence_data[1][1]
                THEN /\ apps'[a].sequence = sequence_data[1][2]
                     /\ same_but_sequence(apps[a], apps'[a])
                ELSE apps'[a] = apps[a]]_vars


\* the requests that move or order applications
MoveOps == {"MoveStage", "Reorder", "ReorderSequence", "BulkMove", "SetSequence"}

\* C26: an application persisted with a stage is never left with a null
\* stage by MoveStage, Reorder, BulkMove or SetSequence, whatever stage id
\* the request carries, an id that resolves to no stage included.
C26_stage_reference_never_nulled ==
    [][last'.op \in MoveOps =>
          \A a \in AppIds(apps) :
              apps[a].stage_id # None => apps'[a].stage_id # None]_vars


\* C28: conversion supersedes the pipeline status for good: whatever
\* MoveStage, BulkMove, Reorder, SetSequence and archive calls follow a
\* conversion, a persisted application with converted true has hired false
\* and canceled false.
C28_converted_stays_neither_hired_nor_canceled ==
    \A a \in AppIds(apps) :
        apps[a].converted => (~apps[a].hired /\ ~apps[a].canceled)

\* a converted application that a later request has put in a selected stage
C28_Witness ==
    /\ last.op \in MoveOps \cup {"Archive"}
    /\ last.type \in {"success", "info"}
    /\ \E a \in AppIds(apps) :
          /\ apps[a].converted
          /\ stage_type_of(stages, apps[a]) = "selected"


====
